---- MODULE Spec2Model ----
(***************************************************************************)
(* Model of the ANARI/GLFW demo (examples/demo/src/main.cpp).  The file    *)
(* holds two versions of the program: the class based one (DisplaySystem,  *)
(* WindowWrapper, RenderSystem; lines 1-368), called variant "A" here, and *)
(* the flat one (lines 369-647), called variant "B".  The state is the     *)
(* program counter of main, the handles the program holds, the reference   *)
(* and parameter state of every ANARI object, the window's close flag and  *)
(* framebuffer size, and history variables recording the API calls made.   *)
(*                                                                         *)
(* The windowing and rendering libraries are outside the repository.  A    *)
(* call that hands them a null handle where a valid one is required is     *)
(* modelled as a choice between a crash and a return without effect.       *)
(***************************************************************************)
EXTENDS Integers, Sequences, FiniteSets, TLC

\* ---------------------------------------------------------------- bounds
MaxIter == 2        \* loop iterations explored
MaxKeys == 2        \* key events delivered by one glfwPollEvents call

\* ------------------------------------------------------- program constants
kWidth == 640
kHeight == 480

Variants == {"A", "B"}
Keys == {"ESCAPE", "A", "D", "OTHER"}
KeyActions == {"PRESS", "RELEASE", "REPEAT"}
Sizes == {<<kWidth, kHeight>>, <<800, 600>>}
NullSize == <<0, 0>>
CamYs == {0, 1}
Objs == {"renderer", "camera", "world", "mesh", "mat", "surface", "frame"}
IdChannels == {"primitiveId", "objectId", "instanceId"}
Channels == {"color"} \cup IdChannels

VARIABLES
  variant,      \* which of the two programs of main.cpp runs
  pc,           \* position of main
  glfw,         \* "off" | "init" | "terminated"
  window,       \* window handle: "unset" | "valid" | "null"
  windowAlive,  \* the native window exists (created and not destroyed)
  shouldClose,  \* the window's close-request flag
  fbSize,       \* live framebuffer size of the window
  resized,      \* the framebuffer size changed since it was last polled
  polled,       \* locals width, height of the loop body, and the iteration
  library,      \* "unset" | "valid" | "null" | "unloaded"
  device,       \* "unset" | "valid" | "null" | "released"
  obj,          \* per ANARI object: handle state, references, dirty flag
  frameParams,  \* pending and committed size and channels of the frame
  cameraPos,    \* pending and committed camera position (y component)
  mapped,       \* channels of the frame currently mapped
  fb,           \* result of the last map of each channel
  iter,         \* number of loop iterations started
  keys,         \* key events delivered by the current glfwPollEvents
  lastKey,      \* the last key event delivered to the key handler
  log,          \* API calls of the current loop iteration, in order
  lastRender,   \* what the last render request found
  idReads,      \* <<channel, map result>> of each read of the last id check
  staleUses,    \* objects passed to a call after the application's release
  nullOps,      \* window operations performed on a null window handle
  shutdownLog,  \* release / unload / destroy / terminate calls, in order
  exitCode      \* -1 while running, else the value main returned

vars == <<variant, pc, glfw, window, windowAlive, shouldClose, fbSize,
          resized, polled, library, device, obj, frameParams, cameraPos,
          mapped, fb, iter, keys, lastKey, log, lastRender, idReads,
          staleUses, nullOps, shutdownLog, exitCode>>

\* ------------------------------------------------------- ANARI object model
NoObject == [st |-> "unset", app |-> 0, parents |-> {}, dirty |-> FALSE,
             rel |-> 0]

\* anari::newObject: one application reference; a null device gives null
newObject(o, n, dev) ==
  [o EXCEPT ![n] = IF dev = "valid"
                   THEN [st |-> "live", app |-> 1, parents |-> {},
                         dirty |-> FALSE, rel |-> 0]
                   ELSE [NoObject EXCEPT !.st = "null"]]

\* anari::setParameter / setParameterArray1D with a plain value
setParameter(o, n) ==
  IF o[n].st = "live" THEN [o EXCEPT ![n].dirty = TRUE] ELSE o

\* anari::commitParameters
commitParameters(o, n) ==
  IF o[n].st = "live" THEN [o EXCEPT ![n].dirty = FALSE] ELSE o

\* anari::release: the application gives up one reference
release(o, n) ==
  IF o[n].st = "live"
  THEN [o EXCEPT ![n].app = IF @ > 0 THEN @ - 1 ELSE 0, ![n].rel = @ + 1]
  ELSE o

\* anari::setParameter with an object value: parent p now refers to child c
setObjectParameter(o, p, c) ==
  IF o[p].st = "live"
  THEN [o EXCEPT ![p].dirty = TRUE,
                 ![c].parents = IF o[c].st = "live" THEN @ \cup {p} ELSE @]
  ELSE o

setWithoutRelease(o, p, c) == setObjectParameter(o, p, c)

\* anari::setAndReleaseParameter
setAndReleaseParameter(o, p, c) == release(setObjectParameter(o, p, c), c)

\* objects among ns that the application has already released
Stale(o, ns) == {n \in ns : o[n].st = "live" /\ o[n].app = 0}

NoFrameParams == [sizePending |-> NullSize, sizeCommitted |-> NullSize,
                  chPending |-> {}, chCommitted |-> {}]

commitFrameChannelsOnly(o, fp) ==
  IF o["frame"].st = "live"
  THEN [fp EXCEPT !.chCommitted = fp.chPending]
  ELSE fp

\* commitParameters on the frame: pending values become the committed ones
commitFrame(o, fp) ==
  IF o["frame"].st = "live"
  THEN [fp EXCEPT !.sizeCommitted = fp.sizePending,
                  !.chCommitted = fp.chPending]
  ELSE fp

\* setParameter(frame, "size", s)
setFrameSize(o, fp, s) ==
  IF o["frame"].st = "live" THEN [fp EXCEPT !.sizePending = s] ELSE fp

\* setParameter(frame, "channel.<c>", type) for every c in cs
setFrameChannels(o, fp, cs) ==
  IF o["frame"].st = "live" THEN [fp EXCEPT !.chPending = @ \cup cs] ELSE fp

NoRender == [iter |-> 0, dirty |-> {}, size |-> NullSize, polled |-> NullSize,
             polledIter |-> 0, fb |-> NullSize, stable |-> FALSE,
             mapped |-> {}, frameLive |-> FALSE]

Init ==
  /\ variant \in Variants
  /\ pc = "start"
  /\ glfw = "off"
  /\ window = "unset"
  /\ windowAlive = FALSE
  /\ shouldClose = FALSE
  /\ fbSize = NullSize
  /\ resized = FALSE
  /\ polled = [size |-> NullSize, iter |-> 0]
  /\ library = "unset"
  /\ device = "unset"
  /\ obj = [n \in Objs |-> NoObject]
  /\ frameParams = NoFrameParams
  /\ cameraPos = [member |-> 0, pending |-> 0, committed |-> 0]
  /\ mapped = {}
  /\ fb = [c \in Channels |-> "none"]
  /\ iter = 0
  /\ keys = 0
  /\ lastKey = [key |-> "OTHER", action |-> "RELEASE"]
  /\ log = <<>>
  /\ lastRender = NoRender
  /\ idReads = {}
  /\ staleUses = {}
  /\ nullOps = {}
  /\ shutdownLog = <<>>
  /\ exitCode = -1

\* ------------------------------------------------------------ control flow
\* order of the render request and its wait (RenderSystem::RenderFrame)
RenderFlowSkipWait(v, p) == "map"

RenderFlow(v, p) == IF p = "render" THEN "wait" ELSE "map"

\* order of map, pixel copy, buffer swap and unmap in the loop body
PresentFlowUnmapFirst(v, p) ==
  CASE p = "map"   -> "unmap"
    [] p = "unmap" -> "draw"
    [] p = "draw"  -> "swap"
    [] p = "swap"  -> IF v = "A" THEN "poll" ELSE "idcheck"

PresentFlow(v, p) ==
  CASE p = "map"   -> "draw"
    [] p = "draw"  -> "swap"
    [] p = "swap"  -> "unmap"
    [] p = "unmap" -> IF v = "A" THEN "poll" ELSE "idcheck"

\* successor of each statement group of main, per variant
Flow(v, p) ==
  CASE p = "start"        -> "createWindow"
    [] p = "createWindow" -> "init"
    [] p = "init"         -> "createScene"
    [] p = "createScene"  -> "setupFrame"
    [] p = "setupFrame"   -> "cond"
    [] p = "pollsize"     -> IF v = "A" THEN "updsize" ELSE "updmesh"
    [] p = "updmesh"      -> "updcam"
    [] p = "updcam"       -> IF v = "A" THEN "render" ELSE "updsize"
    [] p = "updsize"      -> IF v = "A" THEN "updcam" ELSE "render"
    [] p \in {"render", "wait"} -> RenderFlow(v, p)
    [] p \in {"map", "draw", "swap", "unmap"} -> PresentFlow(v, p)
    [] p = "idcheck"      -> "poll"
    [] p = "poll"         -> "cond"
    [] p = "cleanup"      -> "dsdtor"
    [] p = "dsdtor"       -> "done"
    [] OTHER              -> p

LoopPcs == {"cond", "pollsize", "updmesh", "updcam", "updsize", "render",
            "wait", "map", "draw", "swap", "unmap", "idcheck", "poll"}

\* ---------------------------------------------------------- DisplaySystem
\* DisplaySystem::DisplaySystem: glfwInit
DisplaySystemCtor ==
  /\ pc = "start"
  /\ glfw' = "init"
  /\ pc' = Flow(variant, pc)
  /\ UNCHANGED <<variant, window, windowAlive, shouldClose, fbSize, resized,
                 polled, library, device, obj, frameParams, cameraPos, mapped,
                 fb, iter, keys, lastKey, log, lastRender, idReads, staleUses,
                 nullOps, shutdownLog, exitCode>>

\* window calls of CreateWindow that follow the failure branch and need a
\* valid window (glfwMakeContextCurrent accepts a null window)
WindowOpsAfterCreate(v) ==
  IF v = "A" THEN {"glfwSetWindowUserPointer", "glfwSetKeyCallback"}
             ELSE {"glfwSetKeyCallback"}

\* DisplaySystem::CreateWindow: the failure branch only logs, then falls
\* through to the calls that follow
CreateWindow ==
  /\ pc = "createWindow"
  /\ \E ok \in BOOLEAN :
       IF ok
       THEN /\ window' = "valid"
            /\ windowAlive' = TRUE
            /\ fbSize' = <<kWidth, kHeight>>
            /\ nullOps' = nullOps
            /\ pc' = Flow(variant, pc)
       ELSE /\ window' = "null"
            /\ windowAlive' = FALSE
            /\ fbSize' = fbSize
            /\ nullOps' = nullOps \cup WindowOpsAfterCreate(variant)
            /\ pc' \in IF WindowOpsAfterCreate(variant) = {}
                       THEN {Flow(variant, pc)}
                       ELSE {Flow(variant, pc), "crashed"}
  /\ UNCHANGED <<variant, glfw, shouldClose, resized, polled, library, device,
                 obj, frameParams, cameraPos, mapped, fb, iter, keys, lastKey,
                 log, lastRender, idReads, staleUses, shutdownLog, exitCode>>

HandleKeyAnyAction(flag, key, action) ==
  IF key = "ESCAPE" THEN TRUE ELSE flag

\* WindowWrapper::HandleKey (variant A): new value of the close flag
HandleKey(flag, key, action) ==
  IF action = "PRESS"
  THEN CASE key = "ESCAPE" -> TRUE
         [] key = "A"      -> flag
         [] key = "D"      -> flag
         [] OTHER          -> flag
  ELSE flag

\* key_callback (variant B): new value of the close flag
key_callback(flag, key, action) ==
  IF key = "ESCAPE" /\ action = "PRESS" THEN TRUE ELSE flag

\* glfwPollEvents delivers one key event to the registered key callback
KeyEvent ==
  /\ pc = "poll"
  /\ window = "valid" /\ windowAlive
  /\ keys < MaxKeys
  /\ \E k \in Keys, a \in KeyActions :
       /\ shouldClose' = IF variant = "A" THEN HandleKey(shouldClose, k, a)
                                          ELSE key_callback(shouldClose, k, a)
       /\ lastKey' = [key |-> k, action |-> a]
  /\ keys' = keys + 1
  /\ UNCHANGED <<variant, pc, glfw, window, windowAlive, fbSize, resized,
                 polled, library, device, obj, frameParams, cameraPos, mapped,
                 fb, iter, log, lastRender, idReads, staleUses, nullOps,
                 shutdownLog, exitCode>>

\* glfwPollEvents processes a click on the window's close button
CloseButton ==
  /\ pc = "poll"
  /\ window = "valid" /\ windowAlive
  /\ ~shouldClose
  /\ shouldClose' = TRUE
  /\ UNCHANGED <<variant, pc, glfw, window, windowAlive, fbSize, resized,
                 polled, library, device, obj, frameParams, cameraPos, mapped,
                 fb, iter, keys, lastKey, log, lastRender, idReads, staleUses,
                 nullOps, shutdownLog, exitCode>>

\* glfwPollEvents returns
PollReturn ==
  /\ pc = "poll"
  /\ keys' = 0
  /\ pc' = Flow(variant, pc)
  /\ UNCHANGED <<variant, glfw, window, windowAlive, shouldClose, fbSize,
                 resized, polled, library, device, obj, frameParams,
                 cameraPos, mapped, fb, iter, lastKey, log, lastRender,
                 idReads, staleUses, nullOps, shutdownLog, exitCode>>

\* the user resizes the window while the loop runs
Resize ==
  /\ pc \in LoopPcs
  /\ window = "valid" /\ windowAlive
  /\ \E s \in Sizes \ {fbSize} : fbSize' = s
  /\ resized' = TRUE
  /\ UNCHANGED <<variant, pc, glfw, window, windowAlive, shouldClose, polled,
                 library, device, obj, frameParams, cameraPos, mapped, fb,
                 iter, keys, lastKey, log, lastRender, idReads, staleUses,
                 nullOps, shutdownLog, exitCode>>

\* glfwWindowShouldClose(ds.Window()); a null window yields the default 0
glfwWindowShouldClose == IF window = "valid" THEN shouldClose ELSE FALSE

\* while (!glfwWindowShouldClose(ds.Window())): the loop condition
LoopCond ==
  /\ pc = "cond"
  /\ IF glfwWindowShouldClose
     THEN /\ pc' = "cleanup"
          /\ UNCHANGED <<iter, log, fb>>
     ELSE /\ iter < MaxIter
          /\ iter' = iter + 1
          /\ log' = <<>>
          /\ fb' = [c \in Channels |-> "none"]
          /\ pc' = "pollsize"
  /\ UNCHANGED <<variant, glfw, window, windowAlive, shouldClose, fbSize,
                 resized, polled, library, device, obj, frameParams,
                 cameraPos, mapped, keys, lastKey, lastRender, idReads,
                 staleUses, nullOps, shutdownLog, exitCode>>

\* glfwGetFramebufferSize(ds.Window(), &width, &height)
GetFramebufferSize ==
  /\ pc = "pollsize"
  /\ polled' = [size |-> IF window = "valid" THEN fbSize ELSE NullSize,
                iter |-> iter]
  /\ resized' = FALSE
  /\ pc' = Flow(variant, pc)
  /\ UNCHANGED <<variant, glfw, window, windowAlive, shouldClose, fbSize,
                 library, device, obj, frameParams, cameraPos, mapped, fb,
                 iter, keys, lastKey, log, lastRender, idReads, staleUses,
                 nullOps, shutdownLog, exitCode>>

\* ------------------------------------------------------------ RenderSystem
\* the renderer: newObject, two setParameter calls, commitParameters
RendererObject(o, dev) ==
  commitParameters(setParameter(newObject(o, "renderer", dev), "renderer"),
                   "renderer")

\* RenderSystem::Init (variant A): load library, create device and renderer
RsInit ==
  /\ pc = "init" /\ variant = "A"
  /\ \E lib \in {"valid", "null"}, dev \in {"valid", "null"} :
       /\ lib = "null" => dev = "null"
       /\ library' = lib
       /\ device' = dev
       /\ obj' = RendererObject(obj, dev)
       /\ pc' \in IF dev = "valid" THEN {Flow(variant, pc)}
                                   ELSE {Flow(variant, pc), "crashed"}
  /\ UNCHANGED <<variant, glfw, window, windowAlive, shouldClose, fbSize,
                 resized, polled, frameParams, cameraPos, mapped, fb, iter,
                 keys, lastKey, log, lastRender, idReads, staleUses, nullOps,
                 shutdownLog, exitCode>>

\* main, variant B: load library, query extensions, create device
InitB ==
  /\ pc = "init" /\ variant = "B"
  /\ \E lib \in {"valid", "null"}, dev \in {"valid", "null"} :
       /\ lib = "null" => dev = "null"
       /\ library' = lib
       /\ device' = dev
       /\ pc' \in IF lib = "valid" THEN {Flow(variant, pc)}
                                   ELSE {Flow(variant, pc), "crashed"}
  /\ UNCHANGED <<variant, glfw, window, windowAlive, shouldClose, fbSize,
                 resized, polled, obj, frameParams, cameraPos, mapped, fb,
                 iter, keys, lastKey, log, lastRender, idReads, staleUses,
                 nullOps, shutdownLog, exitCode>>

\* camera, world, mesh, material and surface as both variants build them
SceneObjects(o, dev) ==
  LET o1 == commitParameters(
              setParameter(newObject(o, "camera", dev), "camera"), "camera")
      o2 == newObject(o1, "world", dev)
      o3 == commitParameters(
              setParameter(newObject(o2, "mesh", dev), "mesh"), "mesh")
      o4 == commitParameters(
              setParameter(newObject(o3, "mat", dev), "mat"), "mat")
      o5 == newObject(o4, "surface", dev)
      o6 == setAndReleaseParameter(o5, "surface", "mesh")
      o7 == setAndReleaseParameter(o6, "surface", "mat")
      o8 == commitParameters(setParameter(o7, "surface"), "surface")
      o9 == setObjectParameter(o8, "world", "surface")
      o10 == release(setParameter(o9, "world"), "surface")
  IN  commitParameters(o10, "world")

\* RenderSystem::CreateScene (variant A) and the scene set-up of variant B
CreateScene ==
  /\ pc = "createScene"
  /\ obj' = SceneObjects(obj, device)
  /\ cameraPos' = [member |-> 0, pending |-> 0, committed |-> 0]
  /\ pc' = Flow(variant, pc)
  /\ UNCHANGED <<variant, glfw, window, windowAlive, shouldClose, fbSize,
                 resized, polled, library, device, frameParams, mapped, fb,
                 iter, keys, lastKey, log, lastRender, idReads, staleUses,
                 nullOps, shutdownLog, exitCode>>

\* the frame: newObject, hand over renderer, camera and world, callback
FrameObject(o, dev) ==
  LET o1 == newObject(o, "frame", dev)
      o2 == setAndReleaseParameter(o1, "frame", "renderer")
      o3 == setAndReleaseParameter(o2, "frame", "camera")
      o4 == setAndReleaseParameter(o3, "frame", "world")
  IN  setParameter(o4, "frame")

\* RenderSystem::SetupFrame (variant A): channels are declared here
SetupFrame ==
  /\ pc = "setupFrame" /\ variant = "A"
  /\ LET o1 == FrameObject(obj, device)
         fp == [NoFrameParams EXCEPT !.sizePending = NullSize]
     IN  /\ obj' = commitParameters(o1, "frame")
         /\ frameParams' = commitFrame(o1, setFrameChannels(o1, fp, Channels))
  /\ pc' = Flow(variant, pc)
  /\ UNCHANGED <<variant, glfw, window, windowAlive, shouldClose, fbSize,
                 resized, polled, library, device, cameraPos, mapped, fb,
                 iter, keys, lastKey, log, lastRender, idReads, staleUses,
                 nullOps, shutdownLog, exitCode>>

\* main, variant B: renderer and frame; no channel is declared yet
SetupFrameB ==
  /\ pc = "setupFrame" /\ variant = "B"
  /\ LET o1 == FrameObject(RendererObject(obj, device), device)
     IN  /\ obj' = commitParameters(o1, "frame")
         /\ frameParams' = commitFrame(o1, NoFrameParams)
  /\ pc' = Flow(variant, pc)
  /\ UNCHANGED <<variant, glfw, window, windowAlive, shouldClose, fbSize,
                 resized, polled, library, device, cameraPos, mapped, fb,
                 iter, keys, lastKey, log, lastRender, idReads, staleUses,
                 nullOps, shutdownLog, exitCode>>

\* RenderSystem::UpdateFrameSize (variant A)
UpdateFrameSize ==
  /\ pc = "updsize" /\ variant = "A"
  /\ obj' = commitParameters(setParameter(obj, "frame"), "frame")
  /\ frameParams' = commitFrame(obj, setFrameSize(obj, frameParams,
                                                  polled.size))
  /\ staleUses' = staleUses \cup Stale(obj, {"frame"})
  /\ pc' = Flow(variant, pc)
  /\ UNCHANGED <<variant, glfw, window, windowAlive, shouldClose, fbSize,
                 resized, polled, library, device, cameraPos, mapped, fb,
                 iter, keys, lastKey, log, lastRender, idReads, nullOps,
                 shutdownLog, exitCode>>

\* main, variant B: size and the four channels are set and committed
UpdateFrameB ==
  /\ pc = "updsize" /\ variant = "B"
  /\ obj' = commitParameters(setParameter(obj, "frame"), "frame")
  /\ frameParams' =
       commitFrame(obj, setFrameChannels(obj,
                          setFrameSize(obj, frameParams, polled.size),
                          Channels))
  /\ staleUses' = staleUses \cup Stale(obj, {"frame"})
  /\ pc' = Flow(variant, pc)
  /\ UNCHANGED <<variant, glfw, window, windowAlive, shouldClose, fbSize,
                 resized, polled, library, device, cameraPos, mapped, fb,
                 iter, keys, lastKey, log, lastRender, idReads, nullOps,
                 shutdownLog, exitCode>>

updateCameraObjectNoCommit(o) == setParameter(o, "camera")

\* setParameter calls on the camera followed by commitParameters
updateCameraObject(o) ==
  commitParameters(setParameter(o, "camera"), "camera")

\* camera position after setParameter "position" and commitParameters
cameraCommit(o, cp, y) ==
  IF o["camera"].st = "live"
  THEN [cp EXCEPT !.pending = y, !.committed = y]
  ELSE cp

\* RenderSystem::UpdateCamera (variant A); y stands for sin(time)
UpdateCamera ==
  /\ pc = "updcam" /\ variant = "A"
  /\ \E y \in CamYs :
       cameraPos' = cameraCommit(obj, [cameraPos EXCEPT !.member = y], y)
  /\ obj' = updateCameraObject(obj)
  /\ staleUses' = staleUses \cup Stale(obj, {"camera"})
  /\ pc' = Flow(variant, pc)
  /\ UNCHANGED <<variant, glfw, window, windowAlive, shouldClose, fbSize,
                 resized, polled, library, device, frameParams, mapped, fb,
                 iter, keys, lastKey, log, lastRender, idReads, nullOps,
                 shutdownLog, exitCode>>

\* main, variant B: camera position update
UpdateCameraB ==
  /\ pc = "updcam" /\ variant = "B"
  /\ \E y \in CamYs : cameraPos' = cameraCommit(obj, cameraPos, y)
  /\ obj' = updateCameraObject(obj)
  /\ staleUses' = staleUses \cup Stale(obj, {"camera"})
  /\ pc' = Flow(variant, pc)
  /\ UNCHANGED <<variant, glfw, window, windowAlive, shouldClose, fbSize,
                 resized, polled, library, device, frameParams, mapped, fb,
                 iter, keys, lastKey, log, lastRender, idReads, nullOps,
                 shutdownLog, exitCode>>

\* main, variant B: vertex colour update of the mesh
UpdateMeshB ==
  /\ pc = "updmesh" /\ variant = "B"
  /\ obj' = commitParameters(setParameter(obj, "mesh"), "mesh")
  /\ staleUses' = staleUses \cup Stale(obj, {"mesh"})
  /\ pc' = Flow(variant, pc)
  /\ UNCHANGED <<variant, glfw, window, windowAlive, shouldClose, fbSize,
                 resized, polled, library, device, frameParams, cameraPos,
                 mapped, fb, iter, keys, lastKey, log, lastRender, idReads,
                 nullOps, shutdownLog, exitCode>>

\* objects reachable from the frame whose parameters were set after their
\* last commit
DirtyObjects(o) == {n \in Objs : o[n].st = "live" /\ o[n].dirty}

\* anari::render(device, frame): the render request
Render ==
  /\ pc = "render"
  /\ log' = Append(log, "render")
  /\ lastRender' = [iter |-> iter,
                    dirty |-> DirtyObjects(obj),
                    size |-> frameParams.sizeCommitted,
                    polled |-> polled.size,
                    polledIter |-> polled.iter,
                    fb |-> fbSize,
                    stable |-> ~resized,
                    mapped |-> mapped,
                    frameLive |-> obj["frame"].st = "live"]
  /\ pc' = Flow(variant, pc)
  /\ UNCHANGED <<variant, glfw, window, windowAlive, shouldClose, fbSize,
                 resized, polled, library, device, obj, frameParams,
                 cameraPos, mapped, fb, iter, keys, lastKey, idReads,
                 staleUses, nullOps, shutdownLog, exitCode>>

\* anari::wait(device, frame) returns
WaitReturn ==
  /\ pc = "wait"
  /\ log' = Append(log, "wait")
  /\ pc' = Flow(variant, pc)
  /\ UNCHANGED <<variant, glfw, window, windowAlive, shouldClose, fbSize,
                 resized, polled, library, device, obj, frameParams,
                 cameraPos, mapped, fb, iter, keys, lastKey, lastRender,
                 idReads, staleUses, nullOps, shutdownLog, exitCode>>

\* channels a map on the frame can succeed for
Mappable == IF obj["frame"].st = "live" THEN frameParams.chCommitted ELSE {}

\* RenderSystem::MapFrame / anari::map of "channel.color"
MapFrame ==
  /\ pc = "map"
  /\ LET r == IF "color" \in Mappable THEN "valid" ELSE "empty"
     IN  /\ fb' = [fb EXCEPT !["color"] = r]
         /\ mapped' = IF r = "valid" THEN mapped \cup {"color"} ELSE mapped
  /\ log' = Append(log, "map_color")
  /\ pc' = Flow(variant, pc)
  /\ UNCHANGED <<variant, glfw, window, windowAlive, shouldClose, fbSize,
                 resized, polled, library, device, obj, frameParams,
                 cameraPos, iter, keys, lastKey, lastRender, idReads,
                 staleUses, nullOps, shutdownLog, exitCode>>

\* glViewport, glClearColor, glClear, glDrawPixels(..., fb.data)
DrawPixels ==
  /\ pc = "draw"
  /\ log' = Append(log, "read_color")
  /\ pc' = Flow(variant, pc)
  /\ UNCHANGED <<variant, glfw, window, windowAlive, shouldClose, fbSize,
                 resized, polled, library, device, obj, frameParams,
                 cameraPos, mapped, fb, iter, keys, lastKey, lastRender,
                 idReads, staleUses, nullOps, shutdownLog, exitCode>>

\* glfwSwapBuffers(ds.Window())
SwapBuffers ==
  /\ pc = "swap"
  /\ log' = Append(log, "swap")
  /\ pc' = Flow(variant, pc)
  /\ UNCHANGED <<variant, glfw, window, windowAlive, shouldClose, fbSize,
                 resized, polled, library, device, obj, frameParams,
                 cameraPos, mapped, fb, iter, keys, lastKey, lastRender,
                 idReads, staleUses, nullOps, shutdownLog, exitCode>>

\* RenderSystem::UnmapFrame / anari::unmap of "channel.color"
UnmapFrame ==
  /\ pc = "unmap"
  /\ mapped' = mapped \ {"color"}
  /\ fb' = [fb EXCEPT !["color"] = IF @ = "valid" THEN "stale" ELSE @]
  /\ log' = Append(log, "unmap_color")
  /\ pc' = Flow(variant, pc)
  /\ UNCHANGED <<variant, glfw, window, windowAlive, shouldClose, fbSize,
                 resized, polled, library, device, obj, frameParams,
                 cameraPos, iter, keys, lastKey, lastRender, idReads,
                 staleUses, nullOps, shutdownLog, exitCode>>

\* the channel whose pixelType guards the read of channel c's data
IdGuard(c) ==
  CASE c = "primitiveId" -> "primitiveId"
    [] c = "objectId"    -> "objectId"
    [] c = "instanceId"  -> "primitiveId"

\* main, variant B: map the three id channels and print the centre pixel
IdCheck ==
  /\ pc = "idcheck"
  /\ \E res \in [IdChannels -> {"valid", "empty"}] :
       /\ \A c \in IdChannels : res[c] = "valid" => c \in Mappable
       /\ fb' = [c \in Channels |-> IF c \in IdChannels THEN res[c] ELSE fb[c]]
       /\ mapped' = mapped \cup {c \in IdChannels : res[c] = "valid"}
       /\ idReads' = {<<c, res[c]>> : c \in {x \in IdChannels :
                                               res[IdGuard(x)] = "valid"}}
       /\ pc' \in IF \E c \in IdChannels :
                       res[IdGuard(c)] = "valid" /\ res[c] = "empty"
                  THEN {Flow(variant, pc), "crashed"}
                  ELSE {Flow(variant, pc)}
  /\ log' = log \o <<"map_primitiveId", "map_objectId", "map_instanceId">>
  /\ UNCHANGED <<variant, glfw, window, windowAlive, shouldClose, fbSize,
                 resized, polled, library, device, obj, frameParams,
                 cameraPos, iter, keys, lastKey, lastRender, staleUses,
                 nullOps, shutdownLog, exitCode>>

\* ---------------------------------------------------------------- shutdown
Event(op, h) == [op |-> op, h |-> h]

\* handle as a call sees it: "valid" or "null"
Handle(h) == IF h = "valid" THEN "valid" ELSE "null"
FrameHandle == IF obj["frame"].st = "live" THEN "valid" ELSE "null"

\* release / unload calls of ~RenderSystem: each one behind its null check
RsDtorCalls ==
  (IF device = "valid" /\ FrameHandle = "valid"
     THEN <<Event("release_frame", "valid")>> ELSE <<>>)
  \o (IF device = "valid" THEN <<Event("release_device", "valid")>> ELSE <<>>)
  \o (IF library = "valid" THEN <<Event("unload_library", "valid")>>
                           ELSE <<>>)

\* release / unload calls of the final cleanups of variant B: unconditional
FinalCleanupCalls ==
  <<Event("release_frame", FrameHandle),
    Event("release_device", Handle(device)),
    Event("unload_library", Handle(library))>>

\* effect of the calls on the handles: only calls on valid handles act
Released(calls, op) == \E i \in 1..Len(calls) :
                          calls[i].op = op /\ calls[i].h = "valid"

ApplyCleanup(calls) ==
  /\ obj' = IF Released(calls, "release_frame") /\ device = "valid"
            THEN release(obj, "frame") ELSE obj
  /\ device' = IF Released(calls, "release_device") THEN "released" ELSE device
  /\ library' = IF Released(calls, "unload_library") THEN "unloaded"
                                                     ELSE library
  /\ shutdownLog' = shutdownLog \o calls

\* RenderSystem::~RenderSystem (variant A), run when main returns
RsDtor ==
  /\ pc = "cleanup" /\ variant = "A"
  /\ ApplyCleanup(RsDtorCalls)
  /\ pc' = Flow(variant, pc)
  /\ UNCHANGED <<variant, glfw, window, windowAlive, shouldClose, fbSize,
                 resized, polled, frameParams, cameraPos, mapped, fb, iter,
                 keys, lastKey, log, lastRender, idReads, staleUses, nullOps,
                 exitCode>>

\* main, variant B: final cleanups
FinalCleanups ==
  /\ pc = "cleanup" /\ variant = "B"
  /\ ApplyCleanup(FinalCleanupCalls)
  /\ pc' = Flow(variant, pc)
  /\ UNCHANGED <<variant, glfw, window, windowAlive, shouldClose, fbSize,
                 resized, polled, frameParams, cameraPos, mapped, fb, iter,
                 keys, lastKey, log, lastRender, idReads, staleUses, nullOps,
                 exitCode>>

\* window calls of the display system's destruction.  Variant A: the body of
\* ~DisplaySystem (glfwTerminate) runs before the member window_wrapper_ is
\* destroyed (~WindowWrapper: glfwDestroyWindow).  Variant B: the body
\* destroys the window, then terminates.
DsDtorCalls(v) ==
  LET destroy == IF window = "valid"
                 THEN <<Event("destroy_window", "valid")>> ELSE <<>>
      terminate == <<Event("terminate", "valid")>>
  IN  IF v = "A" THEN terminate \o destroy ELSE destroy \o terminate

\* DisplaySystem::~DisplaySystem, then main has returned 0
DsDtor ==
  /\ pc = "dsdtor"
  /\ shutdownLog' = shutdownLog \o DsDtorCalls(variant)
  /\ glfw' = "terminated"
  /\ windowAlive' = FALSE
  /\ exitCode' = 0
  /\ pc' = Flow(variant, pc)
  /\ UNCHANGED <<variant, window, shouldClose, fbSize, resized, polled,
                 library, device, obj, frameParams, cameraPos, mapped, fb,
                 iter, keys, lastKey, log, lastRender, idReads, staleUses,
                 nullOps>>

\* ------------------------------------------------------------------ crashes
\* the statement at pc passes a null handle to a call that needs a valid one,
\* or reads through the null data pointer of an empty map result
NullUseAt(p) ==
  CASE p \in {"createScene", "setupFrame", "updmesh", "updcam", "updsize",
              "render", "wait", "map", "unmap", "idcheck"}
                      -> device # "valid"
    [] p \in {"cond", "pollsize", "swap"} -> window = "null"
    [] p = "draw"     -> window = "null" \/ fb["color"] = "empty"
    [] p = "cleanup"  -> variant = "B" /\ (device # "valid"
                                           \/ library # "valid")
    [] OTHER          -> FALSE

\* the process dies at the statement at pc
Crash ==
  /\ NullUseAt(pc)
  /\ pc' = "crashed"
  /\ UNCHANGED <<variant, glfw, window, windowAlive, shouldClose, fbSize,
                 resized, polled, library, device, obj, frameParams,
                 cameraPos, mapped, fb, iter, keys, lastKey, log, lastRender,
                 idReads, staleUses, nullOps, shutdownLog, exitCode>>

\* ------------------------------------------------------------ specification
ProgramStep ==
  \/ DisplaySystemCtor \/ CreateWindow \/ RsInit \/ InitB \/ CreateScene
  \/ SetupFrame \/ SetupFrameB \/ LoopCond \/ GetFramebufferSize
  \/ UpdateFrameSize \/ UpdateFrameB \/ UpdateCamera \/ UpdateCameraB
  \/ UpdateMeshB \/ Render \/ WaitReturn \/ MapFrame \/ DrawPixels
  \/ SwapBuffers \/ UnmapFrame \/ IdCheck \/ PollReturn \/ RsDtor
  \/ FinalCleanups \/ DsDtor

Next ==
  \/ DisplaySystemCtor \/ CreateWindow \/ RsInit \/ InitB \/ CreateScene
  \/ SetupFrame \/ SetupFrameB \/ LoopCond \/ GetFramebufferSize
  \/ UpdateFrameSize \/ UpdateFrameB \/ UpdateCamera \/ UpdateCameraB
  \/ UpdateMeshB \/ Render \/ WaitReturn \/ MapFrame \/ DrawPixels
  \/ SwapBuffers \/ UnmapFrame \/ IdCheck \/ PollReturn \/ RsDtor
  \/ FinalCleanups \/ DsDtor
  \/ KeyEvent \/ CloseButton \/ Resize \/ Crash

Spec == Init /\ [][Next]_vars

\* main runs on: every statement that is enabled is eventually executed, and
\* each blocking call (anari::wait, glfwPollEvents) returns
FairSpec == Spec /\ WF_vars(ProgramStep)

\* ------------------------------------------------------------- properties
Count(s, e) == Cardinality({i \in 1..Len(s) : s[i] = e})
InLog(e) == \E i \in 1..Len(log) : log[i] = e
EscapePress(k) == k.key = "ESCAPE" /\ k.action = "PRESS"

\* C1: a key event delivered to the key handler raises the close-request
\* flag exactly when it is a press of escape; any other key, and any other
\* action of any key, leaves the flag as it was.
C1_KeyHandlerContract ==
  [][keys' = keys + 1 =>
       shouldClose' = IF EscapePress(lastKey') THEN TRUE ELSE shouldClose]_vars

C1_Witness == keys > 0 /\ EscapePress(lastKey) /\ shouldClose

\* C2: within one loop iteration there is exactly one render request and
\* exactly one wait, the wait follows the request, and both precede the map
\* of the colour channel and the buffer swap of that iteration.
C2_RenderWaitBeforeSwap ==
  /\ Count(log, "render") <= 1
  /\ Count(log, "wait") <= 1
  /\ \A i \in 1..Len(log) :
        log[i] = "wait" => \E j \in 1..(i - 1) : log[j] = "render"
  /\ \A i \in 1..Len(log) :
        log[i] \in {"map_color", "swap"} =>
          \E j \in 1..(i - 1), k \in 1..(i - 1) :
            j < k /\ log[j] = "render" /\ log[k] = "wait"
  /\ pc = "poll" => /\ Count(log, "render") = 1
                    /\ Count(log, "wait") = 1
                    /\ Count(log, "swap") = 1

C2_Witness == pc = "poll" /\ iter >= 2 /\ InLog("swap")

\* C3: at every render request the frame's committed size is the size polled
\* from the window in the same iteration, so a size change between two
\* iterations has reached the frame before the next render request.
C3_FrameSizeCurrent ==
  (lastRender.iter > 0 /\ lastRender.frameLive) =>
     /\ lastRender.polledIter = lastRender.iter
     /\ lastRender.size = lastRender.polled
     /\ lastRender.stable => lastRender.size = lastRender.fb

C3_Witness ==
  /\ lastRender.iter >= 2
  /\ lastRender.frameLive
  /\ lastRender.stable
  /\ lastRender.size # <<kWidth, kHeight>>

\* C4: no object is released twice or handed to two parents; once the device
\* is released every created object has no application reference left and
\* was released by the application exactly once or handed to exactly one
\* parent.
C4_LifecycleDiscipline ==
  \A n \in Objs :
     obj[n].st = "live" =>
       /\ obj[n].rel <= 1
       /\ Cardinality(obj[n].parents) <= 1
       /\ device = "released" =>
            /\ obj[n].app = 0
            /\ obj[n].rel = 1 \/ Cardinality(obj[n].parents) = 1

C4_Witness ==
  device = "released" /\ \A n \in Objs : obj[n].st = "live"

\* C6: the mapped colour data is read only between the map of the colour
\* channel and the matching unmap of the same iteration.
C6_MappedReadScoped ==
  /\ \A i \in 1..Len(log) :
        log[i] = "read_color" =>
          \E j \in 1..(i - 1) :
            /\ log[j] = "map_color"
            /\ \A k \in j..i : log[k] # "unmap_color"
  /\ pc = "draw" => fb["color"] \in {"valid", "empty"}

C6_Witness ==
  pc = "poll" /\ iter >= 2 /\ InLog("read_color") /\ InLog("unmap_color")

\* C7: at every render request no live object has a parameter that was set
\* after the object's last commit.
C7_CommittedAtRender == lastRender.iter > 0 => lastRender.dirty = {}

C7_Witness ==
  /\ lastRender.iter >= 2
  /\ lastRender.frameLive
  /\ \A n \in Objs : obj[n].st = "live"

CleanupOps == {"release_frame", "release_device", "unload_library"}
OpCount(op) == Cardinality({i \in 1..Len(shutdownLog) :
                              shutdownLog[i].op = op})
Before(a, b) == \A i, j \in 1..Len(shutdownLog) :
                  (shutdownLog[i].op = a /\ shutdownLog[j].op = b) => i < j

\* C5: on shutdown the frame is released before the device and the device
\* before the library is unloaded, each at most once, and a step whose
\* handle was never created is skipped.
C5_ShutdownOrder ==
  /\ \A op \in CleanupOps : OpCount(op) <= 1
  /\ Before("release_frame", "release_device")
  /\ Before("release_device", "unload_library")
  /\ Before("release_frame", "unload_library")
  /\ \A i \in 1..Len(shutdownLog) :
        shutdownLog[i].op \in CleanupOps => shutdownLog[i].h = "valid"

C9_CreateWindowFailureHarmless ==
  window = "null" =>
    /\ nullOps = {}
    /\ ~(pc = "crashed" /\ library = "unset")

\* C10: the id check reads the data of an id channel only when the map of
\* that same channel gave a valid result.
C10_IdReadsGuarded == \A r \in idReads : r[2] = "valid"

\* C11: no object handle is passed to a set-parameter or commit call after
\* the application gave up its reference to that object.
C11_NoUseAfterRelease == staleUses = {}

FrameReleased == \E i \in 1..Len(shutdownLog) :
                   shutdownLog[i].op = "release_frame"
                   /\ shutdownLog[i].h = "valid"

\* C12: every map of a frame channel is closed by its unmap before the next
\* render request and before the frame is released: no channel is mapped at
\* a render request or at the release of the frame.
C12_MapsClosed ==
  /\ lastRender.iter > 0 => lastRender.mapped = {}
  /\ FrameReleased => mapped = {}

\* C13: on shutdown the window is destroyed exactly once, before the
\* windowing library is terminated and after frame, device and library of
\* the render system are released; nothing is done to the window after the
\* termination.
C13_WindowDestroyedBeforeTerminate ==
  /\ OpCount("destroy_window") <= 1
  /\ OpCount("terminate") <= 1
  /\ Before("destroy_window", "terminate")
  /\ \A op \in CleanupOps : Before(op, "destroy_window")
  /\ (pc = "done" /\ window = "valid") => OpCount("destroy_window") = 1

====
